---- MODULE Spec2Model ----
(***************************************************************************)
(* The lecture processing pipeline of backend/server.js: the upload routes, *)
(* processLecture / processYouTubeLecture, generateQuizzes and the          *)
(* adapters they await.  A run's position (pc) names the operation it is    *)
(* awaiting; one action is the completion of that operation together with   *)
(* the synchronous code that runs up to the next await.                     *)
(***************************************************************************)
EXTENDS Integers, Sequences, FiniteSets, TLC

\* ------------------------------------------------------------------ bounds

\* Longest AI response (in tokens) enumerated for the quiz parser.
MaxRespLen == 3

Lectures == {"L1", "L2"}
\* `${Date.now()}-${file.originalname}` of an upload: the second request can get
\* the name of the first, or another one.  A YouTube request uploads no file.
UploadNames(l, source) ==
    IF source = "youtube" THEN {"none"}
    ELSE IF l = "L1" THEN {"a"}
    ELSE {"a", "b"}
Sources == {"file", "youtube"}

\* ------------------------------------------------------------ small helpers

Unset == <<>>
Some(v) == <<v>>

RECURSIVE SeqsUpTo(_, _)
SeqsUpTo(S, n) ==
    IF n = 0 THEN {<<>>}
    ELSE LET shorter == SeqsUpTo(S, n - 1)
         IN  shorter \cup {Append(s, x) : s \in {t \in shorter : Len(t) = n - 1}, x \in S}

\* ------------------------------------------------------------ error values

\* An Error's message: the literal text of its template, the failure cause the
\* template interpolates ("" when it interpolates none) and the raw AI response
\* it interpolates (<<>> when none).
Msg(text, cause, resp) == [text |-> text, cause |-> cause, resp |-> resp]

\* reject(err) / a rejected store call: the library's own error, whose message is the cause.
LibraryError(cause) == Msg("", cause, <<>>)

\* ------------------------------------------------- AI responses and quiz JSON

\* An AI response is a sequence of tokens: "[" (lb), "]" (rb), "," (comma), text
\* that is no JSON (prose), the JSON literal null, or one JSON object (item) with
\* its options (absent, a string or an array) and correctAnswer (absent, null or a
\* number).  array is the value of a nested array.
Tok(kind) ==
    [kind |-> kind, optKind |-> "none", options |-> <<>>, caKind |-> "none", correctAnswer |-> 0]
LB == Tok("lb")
RB == Tok("rb")
Comma == Tok("comma")
Prose == Tok("prose")
NullTok == Tok("null")
ArrayVal == Tok("array")
QuizItem(opts, ca) ==
    [kind |-> "item", optKind |-> "array", options |-> opts, caKind |-> "num", correctAnswer |-> ca]
\* {"question": ..., "options": "A, B, C, D", "correctAnswer": ca}
StringOptionsItem(ca) ==
    [kind |-> "item", optKind |-> "string", options |-> <<>>, caKind |-> "num", correctAnswer |-> ca]
\* {"question": ...} with neither options nor correctAnswer
BareItem == Tok("item")
\* {"question": ..., "correctAnswer": ca} without options
NoOptionsItem(ca) == [BareItem EXCEPT !.caKind = "num", !.correctAnswer = ca]
\* {"question": ..., "options": [...], "correctAnswer": null}
NullAnswerItem(opts) == [QuizItem(opts, 0) EXCEPT !.caKind = "null"]

\* String.prototype.indexOf / lastIndexOf of one character: 0-based, -1 when absent.
IndexOf(resp, kind) ==
    IF \E i \in 1..Len(resp) : resp[i].kind = kind
    THEN (CHOOSE i \in 1..Len(resp) :
            /\ resp[i].kind = kind
            /\ \A j \in 1..(i - 1) : resp[j].kind # kind) - 1
    ELSE -1

LastIndexOf(resp, kind) ==
    IF \E i \in 1..Len(resp) : resp[i].kind = kind
    THEN (CHOOSE i \in 1..Len(resp) :
            /\ resp[i].kind = kind
            /\ \A j \in (i + 1)..Len(resp) : resp[j].kind # kind) - 1
    ELSE -1

Clamp(x, lo, hi) == IF x < lo THEN lo ELSE IF x > hi THEN hi ELSE x

\* String.prototype.substring(a, b): both clamped to [0, length], swapped when a > b.
Substring(resp, a, b) ==
    LET ca == Clamp(a, 0, Len(resp))
        cb == Clamp(b, 0, Len(resp))
        from == IF ca <= cb THEN ca ELSE cb
        to == IF ca <= cb THEN cb ELSE ca
    IN  SubSeq(resp, from + 1, to)

\* JSON.parse, by recursive descent over the tokens.
ParseFail == [ok |-> FALSE, next |-> 0, val |-> ArrayVal, elems |-> <<>>]

RECURSIVE ParseValue(_, _), ParseElems(_, _, _)
ParseValue(s, i) ==
    IF i > Len(s) THEN ParseFail
    ELSE IF s[i].kind \in {"item", "null"}
         THEN [ok |-> TRUE, next |-> i + 1, val |-> s[i], elems |-> <<>>]
    ELSE IF s[i].kind = "lb"
         THEN IF i + 1 <= Len(s) /\ s[i + 1].kind = "rb"
              THEN [ok |-> TRUE, next |-> i + 2, val |-> ArrayVal, elems |-> <<>>]
              ELSE ParseElems(s, i + 1, <<>>)
    ELSE ParseFail

ParseElems(s, i, acc) ==
    LET v == ParseValue(s, i)
    IN  IF ~v.ok \/ v.next > Len(s) THEN ParseFail
        ELSE IF s[v.next].kind = "rb"
             THEN [ok |-> TRUE, next |-> v.next + 1, val |-> ArrayVal,
                   elems |-> Append(acc, v.val)]
        ELSE IF s[v.next].kind = "comma"
             THEN ParseElems(s, v.next + 1, Append(acc, v.val))
        ELSE ParseFail

JSONParse(s) ==
    LET v == ParseValue(s, 1)
    IN  IF v.ok /\ v.next = Len(s) + 1
        THEN [ok |-> TRUE, isArray |-> v.val.kind = "array", elems |-> v.elems]
        ELSE [ok |-> FALSE, isArray |-> FALSE, elems |-> <<>>]

\* ------------------------------------------------------- generateQuizzes

\* quiz.options[quiz.correctAnswer]: undefined when the index is null or out of range.
CorrectAnswerText(quiz) ==
    IF quiz.caKind = "num" /\ quiz.correctAnswer >= 0 /\ quiz.correctAnswer < Len(quiz.options)
    THEN [defined |-> TRUE, text |-> quiz.options[quiz.correctAnswer + 1]]
    ELSE [defined |-> FALSE, text |-> ""]

\* Array.prototype.indexOf of a remembered text (or of undefined).
OptionsIndexOf(opts, t) ==
    IF t.defined /\ \E i \in 1..Len(opts) : opts[i] = t.text
    THEN (CHOOSE i \in 1..Len(opts) :
            /\ opts[i] = t.text
            /\ \A j \in 1..(i - 1) : opts[j] # t.text) - 1
    ELSE -1

Perms(n) == {f \in [1..n -> 1..n] : \A i, j \in 1..n : f[i] = f[j] => i = j}

\* quiz.options.sort(() => Math.random() - 0.5): some reordering p of the options.
SortRandom(opts, p) == [i \in 1..Len(opts) |-> opts[p[i]]]

\* The condition of line 192.
ShouldShuffle(quiz) == quiz.optKind # "none" /\ quiz.caKind # "none"

\* (variant: the index is kept as it was before the shuffle)
NewCorrectAnswer_stale(quiz, shuffled) == quiz.correctAnswer

\* One pass of the forEach body on an item whose options are an array.
NewCorrectAnswer(quiz, shuffled) == OptionsIndexOf(shuffled, CorrectAnswerText(quiz))

ShuffleQuiz(quiz, p) ==
    LET shuffled == SortRandom(quiz.options, p)
    IN  [quiz EXCEPT !.options = shuffled,
                     !.caKind = "num",
                     !.correctAnswer = NewCorrectAnswer(quiz, shuffled)]

\* The forEach body throws a TypeError on null (null.options) and on options
\* that are a string (no .sort).
ItemThrows(quiz) ==
    \/ quiz.kind = "null"
    \/ quiz.kind = "item" /\ ShouldShuffle(quiz) /\ quiz.optKind = "string"

\* Every outcome of the forEach body for one element, the comparator's outcomes
\* drawn from permsOf[n] for an option list of length n.
RandomizedQuiz(quiz, permsOf) ==
    IF quiz.kind = "item" /\ ShouldShuffle(quiz)
    THEN {ShuffleQuiz(quiz, p) : p \in permsOf[Len(quiz.options)]}
    ELSE {quiz}

RECURSIVE RandomizedAll(_, _)
RandomizedAll(elems, permsOf) ==
    IF elems = <<>> THEN {<<>>}
    ELSE {<<q>> \o rest : q \in RandomizedQuiz(Head(elems), permsOf),
                          rest \in RandomizedAll(Tail(elems), permsOf)}

\* (variant: the response is parsed as it came, without the extraction)
ExtractJson_wholeResponse(response) == [found |-> TRUE, jsonString |-> response]

\* Lines 180-199 on one response: whether the attempt returns, and with what.
ExtractJson(response) ==
    LET startIndex == IndexOf(response, "lb")
        endIndex == LastIndexOf(response, "rb")
    IN  IF startIndex = -1 \/ endIndex = -1
        THEN [found |-> FALSE, jsonString |-> <<>>]
        ELSE [found |-> TRUE, jsonString |-> Substring(response, startIndex, endIndex + 1)]

AttemptParses(response) ==
    /\ ExtractJson(response).found
    /\ JSONParse(ExtractJson(response).jsonString).ok

ParsedQuizzes(response) == JSONParse(ExtractJson(response).jsonString).elems

AttemptSucceeds(response) ==
    /\ AttemptParses(response)
    /\ JSONParse(ExtractJson(response).jsonString).isArray
    /\ \A k \in 1..Len(ParsedQuizzes(response)) : ~ItemThrows(ParsedQuizzes(response)[k])

AttemptResults(response, permsOf) == RandomizedAll(ParsedQuizzes(response), permsOf)

\* ---------------------------------------------------------- adapters' values

\* A file under uploads/: who named it (multer or the lecture id), the name, the extension.
Path(kind, name, ext) == [kind |-> kind, name |-> name, ext |-> ext]

\* uploads/${lectureId}-youtube.mp4
YouTubeVideoPath(lectureId) == Path("youtube", lectureId, "mp4")

\* videoPath.replace(path.extname(videoPath), '.wav')
AudioPathOf(videoPath) == [videoPath EXCEPT !.ext = "wav"]

\* audioPath.replace(path.extname(audioPath), '.txt'), where Whisper writes
TxtPathOf(audioPath) == [audioPath EXCEPT !.ext = "txt"]

\* uploads/frames_${lectureId}
FramesDirOf(lectureId) == Path("frames", lectureId, "dir")

\* remark().use(html).process(md), as a string
RenderHtml(md) == <<"html", md>>

\* JavaScript numbers are IEEE 754 doubles.  A positive one is a significand
\* of 53 bits, kept as its upper 26 bits hi (the first of them set) and its lower
\* 27 bits lo, with the exponent e of its last bit: it stands for
\* (hi * 2^27 + lo) * 2^e.  Every operation rounds to nearest, ties to even.
HiBits == 26
LoBits == 27

\* The number of bits of a natural number below 2^30.
BitLength(n) ==
    CHOOSE len \in 0..30 : (len = 0 /\ n = 0) \/ (len > 0 /\ 2^(len - 1) <= n /\ n < 2^len)

\* The next double above x.
NextDouble(x) ==
    IF x.lo + 1 < 2^LoBits THEN [x EXCEPT !.lo = @ + 1]
    ELSE IF x.hi + 1 < 2^HiBits THEN [x EXCEPT !.hi = @ + 1, !.lo = 0]
    ELSE [hi |-> 2^(HiBits - 1), lo |-> 0, e |-> x.e + 1]

\* x rounded, given what was dropped after its last bit: rest out of unit.
RoundToDouble(x, rest, unit) ==
    IF 2 * rest > unit \/ (2 * rest = unit /\ x.lo % 2 = 1) THEN NextDouble(x) ELSE x

\* x / y as a double, for positive integers with x / y below 2^26: x is scaled
\* by 2^scale to reach y, then divided 26 and 27 - len bits at a time.
DoubleQuotient(x, y) ==
    LET scale == CHOOSE k \in 0..30 : x * 2^k >= y /\ (k = 0 \/ x * 2^(k - 1) < y)
        whole == (x * 2^scale) \div y
        len == BitLength(whole)
        r0 == (x * 2^scale) % y
        chunk1 == (r0 * 2^HiBits) \div y
        r1 == (r0 * 2^HiBits) % y
        width2 == LoBits - len
        chunk2 == (r1 * 2^width2) \div y
        r2 == (r1 * 2^width2) % y
    IN  RoundToDouble([hi |-> whole * 2^(HiBits - len) + chunk1 \div 2^len,
                       lo |-> (chunk1 % 2^len) * 2^width2 + chunk2,
                       e |-> 0 - (HiBits + width2) - scale],
                      r2, y)

\* k * x as a double, for an integer k in 1..15.
DoubleTimes(k, x) ==
    LET low == x.lo * k
        top == x.hi * k + low \div 2^LoBits
        dropped == BitLength(top) - HiBits
        unit == 2^dropped
    IN  RoundToDouble([hi |-> top \div unit,
                       lo |-> (top % unit) * 2^(LoBits - dropped) + (low % 2^LoBits) \div unit,
                       e |-> x.e + dropped],
                      (low % 2^LoBits) % unit, unit)

\* Math.floor of a positive double below 2^26.
DoubleFloor(x) ==
    IF 0 - x.e >= HiBits + LoBits THEN 0
    ELSE x.hi \div 2^(0 - x.e - LoBits)

FrameInterval == 30
MinFrames == 4
MaxFrames == 12

\* (variant: the count is not bounded)
FrameCount_unclamped(duration) == duration \div FrameInterval

\* Math.min(12, Math.max(4, Math.floor(duration / 30)))
FrameCount(duration) ==
    LET perInterval == DoubleFloor(DoubleQuotient(duration, FrameInterval))
        atLeast == IF perInterval > MinFrames THEN perInterval ELSE MinFrames
    IN  IF atLeast < MaxFrames THEN atLeast ELSE MaxFrames

\* Math.floor((i + 1) * (duration / frameCount)) for the file of index i = k - 1.
Timestamp(k, duration, frameCount) ==
    DoubleFloor(DoubleTimes(k, DoubleQuotient(duration, frameCount)))

\* The descriptors of line 242, for the frameCount files of the frames directory.
SlidesOf(duration, lectureId) ==
    [i \in 1..FrameCount(duration) |->
        [timestamp |-> Timestamp(i, duration, FrameCount(duration)),
         image |-> <<lectureId, i>>]]

\* Video durations (seconds) that ffprobe reports.
Durations == {2, 90}

\* --------------------------------------------------------------- AI client

\* callAI (lines 37-53): without a key it throws a message naming that; any
\* failure of the request is logged and replaced by one fixed message.
CallAIError(cause) ==
    IF cause = "no_api_key"
    THEN Msg("OpenRouter API key is not configured", "no_api_key", <<>>)
    ELSE Msg("Failed to communicate with the AI model.", "", <<>>)

\* How a call can fail, given the configuration.
AIFailures(keyConfigured) == IF keyConfigured THEN {"http_error"} ELSE {"no_api_key"}

\* Line 205.
QuizError(lastResp) ==
    Msg("The AI failed to generate a valid quiz after multiple attempts. Last response: ",
        "", lastResp)

\* Lines 103 and 107.
DownloadError(cause) ==
    IF cause = "exit_code"
    THEN Msg("yt-dlp failed with code ", "exit_code", <<>>)
    ELSE Msg("Failed to start yt-dlp. Is it installed? Error: ", cause, <<>>)

\* Lines 123, 124 and 126.
WhisperError(cause) ==
    IF cause = "output_not_found"
    THEN Msg("Whisper finished, but output file not found.", "output_not_found", <<>>)
    ELSE IF cause = "stderr_output"
    THEN Msg("Whisper failed: ", "stderr_output", <<>>)
    ELSE Msg("Failed to start Whisper: ", cause, <<>>)

\* ------------------------------------------------------------ lecture store

\* lectureSchema (lines 56-71); exists is whether the document was saved.
NoLecture ==
    [exists |-> FALSE, source |-> "file", videoPath |-> Unset,
     transcriptMd |-> Unset, transcriptHtml |-> Unset,
     summaryMd |-> Unset, summaryHtml |-> Unset,
     slides |-> <<>>, quizzes |-> <<>>,
     processingError |-> Unset, processingStage |-> "none"]

\* new Lecture({...}) saved: the schema's defaults for what the route does not give.
NewLecture(source, videoPath) ==
    [NoLecture EXCEPT !.exists = TRUE, !.source = source, !.videoPath = videoPath,
                      !.processingStage = "uploaded"]

\* findByIdAndUpdate(id, upd): the fields of upd are set, the others kept.
ApplyUpdate(rec, upd) ==
    [f \in DOMAIN rec |-> IF f \in DOMAIN upd THEN upd[f] ELSE rec[f]]

\* The update payloads, in the order of the source.
UpdStage(stage) == [processingStage |-> stage]
\* (variant: the rendered transcript is left for a later update)
UpdSummarizing_textOnly(transcript, transcriptHtml) ==
    [processingStage |-> "summarizing", transcriptMd |-> Some(transcript)]
UpdSummarizing(transcript, transcriptHtml) ==
    [processingStage |-> "summarizing", transcriptMd |-> Some(transcript),
     transcriptHtml |-> Some(transcriptHtml)]
\* (variant: the final update forgets the stage)
UpdComplete_noStage(summary, summaryHtml, quizzes, slides) ==
    [summaryMd |-> Some(summary), summaryHtml |-> Some(summaryHtml),
     quizzes |-> quizzes, slides |-> slides, processingError |-> Unset]
UpdComplete(summary, summaryHtml, quizzes, slides) ==
    [summaryMd |-> Some(summary), summaryHtml |-> Some(summaryHtml),
     quizzes |-> quizzes, slides |-> slides,
     processingStage |-> "complete", processingError |-> Unset]
\* (variant: the failure update records the message and leaves the stage)
UpdFailed_noStage(message) == [processingError |-> Some(message)]
\* (variant: the failure update replaces the document's artifacts instead of merging)
UpdFailed_replace(message) ==
    [processingError |-> Some(message), processingStage |-> "failed",
     transcriptMd |-> Unset, transcriptHtml |-> Unset]
UpdFailed(message) == [processingError |-> Some(message), processingStage |-> "failed"]
UpdVideoPath(videoPath) == [videoPath |-> Some(videoPath)]

\* -------------------------------------------------------------------- state

VARIABLES
    apiKey,        \* whether OPENROUTER_API_KEY is configured (line 32)
    handler,       \* per lecture: where its upload route handler stands
    req,           \* per lecture: the request's source and the path multer gave the file
    db,            \* the Lecture collection, by lecture id
    pc,            \* per lecture: the operation its run is awaiting
    caught,        \* per lecture: the message of the error a catch block is persisting
    quizI,         \* per lecture: generateQuizzes' loop counter i
    lastResponse,  \* per lecture: generateQuizzes' lastResponse
    quizLog,       \* history: what each callAI of generateQuizzes gave, in order
    local,         \* per lecture: processLecture's quizzes and slides, and the
                   \* duration and frameCount of its extractFrames (0: not probed)
    files,         \* the files under uploads/
    stageWrites,   \* history: the processingStage values written, in order
    failures,      \* history: the errors thrown in the run, in order
    invoked        \* history: how often each operation was started

vars == <<apiKey, handler, req, db, pc, caught, quizI, lastResponse, quizLog, local, files,
          stageWrites, failures, invoked>>

Operations ==
    {"download", "extractAudio", "whisper", "formatAI", "renderTranscript",
     "summaryAI", "renderSummary", "quizAI", "extractFrames"}

Failure(op, cause, resp) == [op |-> op, cause |-> cause, resp |-> resp]
StoreFailure == Failure("store", "store_error", <<>>)
StoreError == LibraryError("store_error")

NoLocals == [quizzes |-> <<>>, slides |-> <<>>, duration |-> 0, frameCount |-> 0]

VideoPathOf(l) ==
    IF req[l].source = "file" THEN req[l].path ELSE YouTubeVideoPath(l)

Init ==
    /\ apiKey \in BOOLEAN
    /\ handler = [l \in Lectures |-> "idle"]
    /\ req = [l \in Lectures |-> [source |-> "youtube", path |-> Path("upload", "none", "mp4")]]
    /\ db = [l \in Lectures |-> NoLecture]
    /\ pc = [l \in Lectures |-> "none"]
    /\ caught = [l \in Lectures |-> Unset]
    /\ quizI = [l \in Lectures |-> 0]
    /\ lastResponse = [l \in Lectures |-> <<>>]
    /\ quizLog = [l \in Lectures |-> <<>>]
    /\ local = [l \in Lectures |-> NoLocals]
    /\ files = {}
    /\ stageWrites = [l \in Lectures |-> <<>>]
    /\ failures = [l \in Lectures |-> <<>>]
    /\ invoked = [l \in Lectures |-> [op \in Operations |-> 0]]

\* ------------------------------------------------------------ action pieces

Goto(l, position) == pc' = [pc EXCEPT ![l] = position]
Invoke(l, op) == invoked' = [invoked EXCEPT ![l][op] = @ + 1]

\* A findByIdAndUpdate that succeeded.
StoreWrite(l, upd) ==
    /\ db' = [db EXCEPT ![l] = ApplyUpdate(@, upd)]
    /\ stageWrites' =
         IF "processingStage" \in DOMAIN upd
         THEN [stageWrites EXCEPT ![l] = Append(@, upd.processingStage)]
         ELSE stageWrites
NoStoreWrite == UNCHANGED <<db, stageWrites>>

NothingThrown == UNCHANGED <<caught, failures>>

\* processLecture's catch (lines 277-280): the failure update is issued.
InnerCatch(l, message, failure) ==
    /\ Goto(l, "upd_failed")
    /\ caught' = [caught EXCEPT ![l] = Some(message)]
    /\ failures' = [failures EXCEPT ![l] = Append(@, failure)]

\* processYouTubeLecture's catch (lines 289-292).
OuterCatch(l, message, failure) ==
    /\ Goto(l, "yt_upd_failed")
    /\ caught' = [caught EXCEPT ![l] = Some(message)]
    /\ failures' = [failures EXCEPT ![l] = Append(@, failure)]

\* ------------------------------------------------------------------ routes

\* POST /api/upload and /api/upload-youtube up to `await lecture.save()`.
Upload(l, source, name) ==
    /\ handler[l] = "idle"
    /\ handler' = [handler EXCEPT ![l] = "saving"]
    /\ req' = [req EXCEPT ![l] = [source |-> source, path |-> Path("upload", name, "mp4")]]
    /\ files' = IF source = "file" THEN files \cup {Path("upload", name, "mp4")} ELSE files
    /\ UNCHANGED <<apiKey, db, pc, caught, quizI, lastResponse, quizLog, local, stageWrites,
                   failures, invoked>>

\* lecture.save() settles.
SaveDone(l, ok) ==
    /\ handler[l] = "saving"
    /\ IF ok
       THEN /\ db' = [db EXCEPT ![l] =
                        NewLecture(req[l].source,
                                   IF req[l].source = "file" THEN Some(req[l].path) ELSE Unset)]
            /\ handler' = [handler EXCEPT ![l] = "saved"]
       ELSE /\ handler' = [handler EXCEPT ![l] = "error"]
            /\ UNCHANGED db
    /\ UNCHANGED <<apiKey, req, pc, caught, quizI, lastResponse, quizLog, local, files, stageWrites,
                   failures, invoked>>

\* (variant: the run starts its first stage's work without the stage update)
FirstPosition_workFirst(source) ==
    IF source = "file" THEN "extractAudio" ELSE "download"

\* The first await of the run a route starts.
FirstPosition(source) ==
    IF source = "file" THEN "upd_extracting_audio" ELSE "upd_downloading"

\* (variant: the route awaits the run before it responds)
StartRunAndRespond_awaited(l) ==
    /\ \/ /\ handler[l] = "saved"
          /\ Goto(l, FirstPosition(req[l].source))
          /\ handler' = [handler EXCEPT ![l] = "awaiting"]
       \/ /\ handler[l] = "awaiting"
          /\ pc[l] \in {"returned", "rejected"}
          /\ handler' = [handler EXCEPT ![l] = "responded"]
          /\ UNCHANGED pc
    /\ UNCHANGED <<apiKey, req, db, caught, quizI, lastResponse, quizLog, local, files,
                   stageWrites, failures, invoked>>

\* Lines 300-301 and 308-309: the run is started, not awaited, and the response sent.
StartRunAndRespond(l) ==
    /\ handler[l] = "saved"
    /\ Goto(l, FirstPosition(req[l].source))
    /\ handler' = [handler EXCEPT ![l] = "responded"]
    /\ UNCHANGED <<apiKey, req, db, caught, quizI, lastResponse, quizLog, local, files, stageWrites,
                   failures, invoked>>

\* ------------------------------------------------------ processYouTubeLecture

\* Line 285 settles; on success the download is started (line 286).
DownloadingUpdated(l, ok) ==
    /\ pc[l] = "upd_downloading"
    /\ IF ok
       THEN /\ StoreWrite(l, UpdStage("downloading"))
            /\ Invoke(l, "download")
            /\ Goto(l, "download")
            /\ NothingThrown
       ELSE /\ OuterCatch(l, StoreError, StoreFailure)
            /\ NoStoreWrite
            /\ UNCHANGED invoked
    /\ UNCHANGED <<apiKey, handler, req, quizI, lastResponse, quizLog, local, files>>

DownloadOutcomes == {"ok", "exit_code", "spawn_error"}

\* yt-dlp closes or cannot be started (lines 98-107); on success line 287 is issued.
DownloadDone(l, outcome) ==
    /\ pc[l] = "download"
    /\ IF outcome = "ok"
       THEN /\ files' = files \cup {YouTubeVideoPath(l)}
            /\ Goto(l, "upd_videoPath")
            /\ NothingThrown
       ELSE /\ OuterCatch(l, DownloadError(outcome), Failure("download", outcome, <<>>))
            /\ UNCHANGED files
    /\ NoStoreWrite
    /\ UNCHANGED <<apiKey, handler, req, quizI, lastResponse, quizLog, local, invoked>>

\* Line 287 settles; on success processLecture is entered (line 288, then 254).
VideoPathUpdated(l, ok) ==
    /\ pc[l] = "upd_videoPath"
    /\ IF ok
       THEN /\ StoreWrite(l, UpdVideoPath(YouTubeVideoPath(l)))
            /\ Goto(l, "upd_extracting_audio")
            /\ NothingThrown
       ELSE /\ OuterCatch(l, StoreError, StoreFailure)
            /\ NoStoreWrite
    /\ UNCHANGED <<apiKey, handler, req, quizI, lastResponse, quizLog, local, files, invoked>>

\* The outer failure update (line 291) settles; a rejection leaves the function.
OuterFailedUpdated(l, ok) ==
    /\ pc[l] = "yt_upd_failed"
    /\ IF ok
       THEN /\ StoreWrite(l, UpdFailed(caught[l][1]))
            /\ Goto(l, "returned")
            /\ UNCHANGED failures
       ELSE /\ NoStoreWrite
            /\ Goto(l, "rejected")
            /\ failures' = [failures EXCEPT ![l] = Append(@, StoreFailure)]
    /\ UNCHANGED <<apiKey, handler, req, caught, quizI, lastResponse, quizLog, local, files,
                   invoked>>

\* ------------------------------------------------------------- processLecture

\* Line 254 settles; on success extractAudio is started (line 255).
ExtractingAudioUpdated(l, ok) ==
    /\ pc[l] = "upd_extracting_audio"
    /\ IF ok
       THEN /\ StoreWrite(l, UpdStage("extracting_audio"))
            /\ Invoke(l, "extractAudio")
            /\ Goto(l, "extractAudio")
            /\ NothingThrown
       ELSE /\ InnerCatch(l, StoreError, StoreFailure)
            /\ NoStoreWrite
            /\ UNCHANGED invoked
    /\ UNCHANGED <<apiKey, handler, req, quizI, lastResponse, quizLog, local, files>>

\* ffmpeg ends or errors (lines 227-228); on success line 257 is issued.
ExtractAudioDone(l, ok) ==
    /\ pc[l] = "extractAudio"
    /\ IF ok
       THEN /\ files' = files \cup {AudioPathOf(VideoPathOf(l))}
            /\ Goto(l, "upd_transcribing")
            /\ NothingThrown
       ELSE /\ InnerCatch(l, LibraryError("ffmpeg_error"),
                          Failure("extractAudio", "ffmpeg_error", <<>>))
            /\ UNCHANGED files
    /\ NoStoreWrite
    /\ UNCHANGED <<apiKey, handler, req, quizI, lastResponse, quizLog, local, invoked>>

\* Line 257 settles; on success Whisper is started (line 258).
TranscribingUpdated(l, ok) ==
    /\ pc[l] = "upd_transcribing"
    /\ IF ok
       THEN /\ StoreWrite(l, UpdStage("transcribing"))
            /\ Invoke(l, "whisper")
            /\ Goto(l, "whisper")
            /\ NothingThrown
       ELSE /\ InnerCatch(l, StoreError, StoreFailure)
            /\ NoStoreWrite
            /\ UNCHANGED invoked
    /\ UNCHANGED <<apiKey, handler, req, quizI, lastResponse, quizLog, local, files>>

WhisperOutcomes == {"ok", "stderr_output", "output_not_found", "spawn_error"}

\* Whisper closes or cannot be started (lines 116-126).  Its .txt output is read
\* and unlinked in the close handler, so it is never left behind on success.  On
\* success formatTranscript calls the AI (line 259).
WhisperDone(l, outcome) ==
    /\ pc[l] = "whisper"
    /\ IF outcome = "ok"
       THEN /\ AudioPathOf(VideoPathOf(l)) \in files
            /\ Invoke(l, "formatAI")
            /\ Goto(l, "formatAI")
            /\ NothingThrown
       ELSE /\ InnerCatch(l, WhisperError(outcome), Failure("whisper", outcome, <<>>))
            /\ UNCHANGED invoked
    /\ NoStoreWrite
    /\ UNCHANGED <<apiKey, handler, req, quizI, lastResponse, quizLog, local, files>>

\* formatTranscript's callAI settles; on success remark renders it (line 260).
FormatAIDone(l, outcome) ==
    /\ pc[l] = "formatAI"
    /\ IF outcome = "ok"
       THEN /\ apiKey
            /\ Invoke(l, "renderTranscript")
            /\ Goto(l, "renderTranscript")
            /\ NothingThrown
       ELSE /\ outcome \in AIFailures(apiKey)
            /\ InnerCatch(l, CallAIError(outcome), Failure("formatTranscript", outcome, <<>>))
            /\ UNCHANGED invoked
    /\ NoStoreWrite
    /\ UNCHANGED <<apiKey, handler, req, quizI, lastResponse, quizLog, local, files>>

\* remark settles; on success line 262 is issued.
RenderTranscriptDone(l, ok) ==
    /\ pc[l] = "renderTranscript"
    /\ IF ok
       THEN /\ Goto(l, "upd_summarizing")
            /\ NothingThrown
       ELSE InnerCatch(l, LibraryError("render_error"),
                       Failure("renderTranscript", "render_error", <<>>))
    /\ NoStoreWrite
    /\ UNCHANGED <<apiKey, handler, req, quizI, lastResponse, quizLog, local, files, invoked>>

\* Line 262 settles; on success generateSummary calls the AI (line 263).
SummarizingUpdated(l, ok) ==
    /\ pc[l] = "upd_summarizing"
    /\ IF ok
       THEN /\ StoreWrite(l, UpdSummarizing("transcript", RenderHtml("transcript")))
            /\ Invoke(l, "summaryAI")
            /\ Goto(l, "summaryAI")
            /\ NothingThrown
       ELSE /\ InnerCatch(l, StoreError, StoreFailure)
            /\ NoStoreWrite
            /\ UNCHANGED invoked
    /\ UNCHANGED <<apiKey, handler, req, quizI, lastResponse, quizLog, local, files>>

\* generateSummary's callAI settles; on success remark renders it (line 264).
SummaryAIDone(l, outcome) ==
    /\ pc[l] = "summaryAI"
    /\ IF outcome = "ok"
       THEN /\ apiKey
            /\ Invoke(l, "renderSummary")
            /\ Goto(l, "renderSummary")
            /\ NothingThrown
       ELSE /\ outcome \in AIFailures(apiKey)
            /\ InnerCatch(l, CallAIError(outcome), Failure("generateSummary", outcome, <<>>))
            /\ UNCHANGED invoked
    /\ NoStoreWrite
    /\ UNCHANGED <<apiKey, handler, req, quizI, lastResponse, quizLog, local, files>>

\* remark settles; on success generateQuizzes starts: i = 0, lastResponse = '',
\* and its first callAI (lines 164-176).
RenderSummaryDone(l, ok) ==
    /\ pc[l] = "renderSummary"
    /\ IF ok
       THEN /\ quizI' = [quizI EXCEPT ![l] = 0]
            /\ lastResponse' = [lastResponse EXCEPT ![l] = <<>>]
            /\ quizLog' = [quizLog EXCEPT ![l] = <<>>]
            /\ Invoke(l, "quizAI")
            /\ Goto(l, "quizAI")
            /\ NothingThrown
       ELSE /\ InnerCatch(l, LibraryError("render_error"),
                          Failure("renderSummary", "render_error", <<>>))
            /\ UNCHANGED <<quizI, lastResponse, quizLog, invoked>>
    /\ NoStoreWrite
    /\ UNCHANGED <<apiKey, handler, req, local, files>>

\* ------------------------------------------- generateQuizzes inside the run

\* for (let i = 0; i < 2; i++), line 167
QuizAttempts == 2

\* (variant: the last attempt is taken to be a third one)
IsLastAttempt_late(i) == i = 2

\* if (i === 1), line 203
IsLastAttempt(i) == i = 1

\* generateQuizzes returned (line 199, or by falling out of the loop): line 267
\* starts extractFrames, whose executor makes the frames directory at once.
QuizzesReturned(l, quizzes) ==
    /\ local' = [local EXCEPT ![l].quizzes = quizzes]
    /\ files' = files \cup {FramesDirOf(l)}
    /\ Invoke(l, "extractFrames")
    /\ Goto(l, "extractFrames")
    /\ NothingThrown
    /\ UNCHANGED quizI

\* (variant: the loop allows a third attempt)
AttemptFailed_thirdAttempt(l, lastResp, failure) ==
    IF quizI[l] = QuizAttempts
    THEN /\ InnerCatch(l, QuizError(lastResp), failure)
         /\ UNCHANGED <<quizI, invoked, local, files>>
    ELSE /\ quizI' = [quizI EXCEPT ![l] = @ + 1]
         /\ Invoke(l, "quizAI")
         /\ NothingThrown
         /\ UNCHANGED <<pc, local, files>>

\* The catch of lines 201-207 for attempt quizI[l], and the loop's next round.
AttemptFailed(l, lastResp, failure) ==
    IF IsLastAttempt(quizI[l])
    THEN /\ InnerCatch(l, QuizError(lastResp), failure)
         /\ UNCHANGED <<quizI, invoked, local, files>>
    ELSE IF quizI[l] + 1 < QuizAttempts
    THEN /\ quizI' = [quizI EXCEPT ![l] = @ + 1]
         /\ Invoke(l, "quizAI")
         /\ NothingThrown
         /\ UNCHANGED <<pc, local, files>>
    ELSE QuizzesReturned(l, <<>>)

\* The attempt's callAI throws (line 176): lastResponse keeps its value.
QuizAIFailed(l, cause) ==
    /\ pc[l] = "quizAI"
    /\ cause \in AIFailures(apiKey)
    /\ AttemptFailed(l, lastResponse[l], Failure("generateQuizzes", cause, <<>>))
    /\ quizLog' = [quizLog EXCEPT ![l] = Append(@, [threw |-> TRUE, response |-> <<>>])]
    /\ NoStoreWrite
    /\ UNCHANGED <<apiKey, handler, req, lastResponse>>

\* The attempt's callAI returns `response` (lines 176-199).
QuizAIResponded(l, response, permsOf) ==
    /\ pc[l] = "quizAI"
    /\ apiKey
    /\ lastResponse' = [lastResponse EXCEPT ![l] = response]
    /\ quizLog' = [quizLog EXCEPT ![l] = Append(@, [threw |-> FALSE, response |-> response])]
    /\ IF AttemptSucceeds(response)
       THEN \E quizzes \in AttemptResults(response, permsOf) : QuizzesReturned(l, quizzes)
       ELSE AttemptFailed(l, response,
                          Failure("generateQuizzes", "malformed_response", response))
    /\ NoStoreWrite
    /\ UNCHANGED <<apiKey, handler, req>>

\* --------------------------------------------- processLecture, after the quiz

\* ffprobe and the screenshots end or error (lines 235-245); on success the
\* final update is issued (line 269).
ExtractFramesDone(l, ok, duration) ==
    /\ pc[l] = "extractFrames"
    /\ IF ok
       THEN /\ local' = [local EXCEPT ![l].duration = duration,
                                       ![l].frameCount = FrameCount(duration),
                                       ![l].slides = SlidesOf(duration, l)]
            /\ Goto(l, "upd_complete")
            /\ NothingThrown
       ELSE /\ InnerCatch(l, LibraryError("ffmpeg_error"),
                          Failure("extractFrames", "ffmpeg_error", <<>>))
            /\ UNCHANGED local
    /\ NoStoreWrite
    /\ UNCHANGED <<apiKey, handler, req, quizI, lastResponse, quizLog, files, invoked>>

\* Line 269 settles; on success line 276 removes the audio file, inside the try.
CompleteUpdated(l, ok, unlinkOk) ==
    /\ pc[l] = "upd_complete"
    /\ IF ~ok
       THEN /\ InnerCatch(l, StoreError, StoreFailure)
            /\ NoStoreWrite
            /\ UNCHANGED files
       ELSE /\ StoreWrite(l, UpdComplete("summary", RenderHtml("summary"),
                                         local[l].quizzes, local[l].slides))
            /\ IF AudioPathOf(VideoPathOf(l)) \notin files
               THEN /\ unlinkOk
                    /\ Goto(l, "returned")
                    /\ NothingThrown
                    /\ UNCHANGED files
               ELSE IF unlinkOk
               THEN /\ files' = files \ {AudioPathOf(VideoPathOf(l))}
                    /\ Goto(l, "returned")
                    /\ NothingThrown
               ELSE /\ InnerCatch(l, LibraryError("unlink_error"),
                                  Failure("cleanup", "unlink_error", <<>>))
                    /\ UNCHANGED files
    /\ UNCHANGED <<apiKey, handler, req, quizI, lastResponse, quizLog, local, invoked>>

\* Where the run goes when the failure update of line 279 settles: processLecture
\* returns (and with it processYouTubeLecture), or the rejection leaves it, into
\* processYouTubeLecture's catch when it was called from there.
\* (variant: processLecture's catch rethrows after recording the failure)
InnerCatchExit_rethrow(source, ok) ==
    IF source = "youtube" THEN "yt_upd_failed"
    ELSE IF ok THEN "returned"
    ELSE "rejected"

InnerCatchExit(source, ok) ==
    IF ok THEN "returned"
    ELSE IF source = "youtube" THEN "yt_upd_failed"
    ELSE "rejected"

InnerFailedUpdated(l, ok) ==
    /\ pc[l] = "upd_failed"
    /\ IF ok THEN StoreWrite(l, UpdFailed(caught[l][1])) ELSE NoStoreWrite
    /\ Goto(l, InnerCatchExit(req[l].source, ok))
    /\ caught' = IF InnerCatchExit(req[l].source, ok) = "yt_upd_failed"
                 THEN [caught EXCEPT ![l] = Some(StoreError)]
                 ELSE caught
    /\ failures' = IF ok THEN failures ELSE [failures EXCEPT ![l] = Append(@, StoreFailure)]
    /\ UNCHANGED <<apiKey, handler, req, quizI, lastResponse, quizLog, local, files, invoked>>

\* ------------------------------------------------------------ specification

\* The AI responses a run of the pipeline is given.
Q0 == QuizItem(<<"A", "B", "C", "D">>, 1)
PipelineResponses == {<<Prose, LB, Q0, RB>>, <<Prose>>}

\* The comparator outcomes a run of the pipeline is given: the order kept, or reversed.
PipelinePerms == [n \in 0..4 |-> {[i \in 1..n |-> i], [i \in 1..n |-> n + 1 - i]}]

HandlerStep(l) ==
    \/ \E source \in Sources : \E name \in UploadNames(l, source) : Upload(l, source, name)
    \/ \E ok \in BOOLEAN : SaveDone(l, ok)
    \/ StartRunAndRespond(l)

RunStep(l) ==
    \/ \E ok \in BOOLEAN : DownloadingUpdated(l, ok)
    \/ \E outcome \in DownloadOutcomes : DownloadDone(l, outcome)
    \/ \E ok \in BOOLEAN : VideoPathUpdated(l, ok)
    \/ \E ok \in BOOLEAN : OuterFailedUpdated(l, ok)
    \/ \E ok \in BOOLEAN : ExtractingAudioUpdated(l, ok)
    \/ \E ok \in BOOLEAN : ExtractAudioDone(l, ok)
    \/ \E ok \in BOOLEAN : TranscribingUpdated(l, ok)
    \/ \E outcome \in WhisperOutcomes : WhisperDone(l, outcome)
    \/ \E outcome \in {"ok", "http_error", "no_api_key"} : FormatAIDone(l, outcome)
    \/ \E ok \in BOOLEAN : RenderTranscriptDone(l, ok)
    \/ \E ok \in BOOLEAN : SummarizingUpdated(l, ok)
    \/ \E outcome \in {"ok", "http_error", "no_api_key"} : SummaryAIDone(l, outcome)
    \/ \E ok \in BOOLEAN : RenderSummaryDone(l, ok)
    \/ \E cause \in {"http_error", "no_api_key"} : QuizAIFailed(l, cause)
    \/ \E response \in PipelineResponses : QuizAIResponded(l, response, PipelinePerms)
    \/ \E ok \in BOOLEAN, duration \in Durations : ExtractFramesDone(l, ok, duration)
    \/ \E ok, unlinkOk \in BOOLEAN : CompleteUpdated(l, ok, unlinkOk)
    \/ \E ok \in BOOLEAN : InnerFailedUpdated(l, ok)

Next == \E l \in Lectures : HandlerStep(l) \/ RunStep(l)

Spec == Init /\ [][Next]_vars

\* ------------------------------------------- generateQuizzes on its own

\* "4 options each", line 172
NumOptions == 4

\* Every outcome of the comparator.
AllPerms == [n \in 0..NumOptions |-> Perms(n)]

\* The quiz items an AI response is drawn with: option lists with and without
\* repeated texts, and a correctAnswer inside or just outside the list.
OptionLists == [1..NumOptions -> {"A", "B"}] \cup {<<"A", "B", "C", "D">>}
ItemChoices == {QuizItem(opts, ca) : opts \in OptionLists, ca \in (0 - 1)..NumOptions}

\* The AI responses generateQuizzes is given: every token sequence up to
\* MaxRespLen, every one-item array, and some longer ones.
QuizResponses ==
    SeqsUpTo({LB, RB, Comma, Prose, NullTok, Q0}, MaxRespLen)
    \cup {<<LB, item, RB>> : item \in ItemChoices}
    \cup {<<LB, Q0, Comma, QuizItem(<<"A", "A", "B", "C">>, 2), RB>>,
          <<Prose, LB, Q0, Comma, Q0, RB, Prose>>,
          <<LB, Q0, Comma, NullTok, RB>>,
          <<LB, StringOptionsItem(1), RB>>,
          <<LB, BareItem, RB>>,
          <<Prose, LB, Prose, RB, LB, Q0, RB>>}

\* The state in which a file run of L1 enters generateQuizzes (a state of Spec).
QuizInit ==
    /\ apiKey = TRUE
    /\ handler = [l \in Lectures |-> IF l = "L1" THEN "responded" ELSE "idle"]
    /\ req = [l \in Lectures |->
                IF l = "L1" THEN [source |-> "file", path |-> Path("upload", "a", "mp4")]
                ELSE [source |-> "youtube", path |-> Path("upload", "none", "mp4")]]
    /\ db = [l \in Lectures |->
                IF l = "L1"
                THEN ApplyUpdate(NewLecture("file", Some(Path("upload", "a", "mp4"))),
                                 UpdSummarizing("transcript", RenderHtml("transcript")))
                ELSE NoLecture]
    /\ pc = [l \in Lectures |-> IF l = "L1" THEN "quizAI" ELSE "none"]
    /\ caught = [l \in Lectures |-> Unset]
    /\ quizI = [l \in Lectures |-> 0]
    /\ lastResponse = [l \in Lectures |-> <<>>]
    /\ quizLog = [l \in Lectures |-> <<>>]
    /\ local = [l \in Lectures |-> NoLocals]
    /\ files = {Path("upload", "a", "mp4"), Path("upload", "a", "wav")}
    /\ stageWrites = [l \in Lectures |->
                        IF l = "L1" THEN <<"extracting_audio", "transcribing", "summarizing">>
                        ELSE <<>>]
    /\ failures = [l \in Lectures |-> <<>>]
    /\ invoked = [l \in Lectures |->
                    [op \in Operations |->
                        IF l = "L1" /\ op \notin {"download", "extractFrames"} THEN 1 ELSE 0]]

QuizNext ==
    \/ \E response \in QuizResponses : QuizAIResponded("L1", response, AllPerms)
    \/ \E cause \in {"http_error"} : QuizAIFailed("L1", cause)

QuizSpec == QuizInit /\ [][QuizNext]_vars

\* ------------------------------- from generateQuizzes to the end of the run

\* "create 5 multiple choice questions", line 172
NumQuestions == 5

\* One array of 5 quiz items in the prompt's format, told apart by their options.
FiveItems ==
    <<LB, QuizItem(<<"A", "B", "C", "D">>, 1), Comma,
          QuizItem(<<"A", "A", "B", "C">>, 0), Comma,
          QuizItem(<<"A", "B", "B", "C">>, 3), Comma,
          QuizItem(<<"A", "B", "C", "C">>, 2), Comma,
          QuizItem(<<"A", "A", "A", "B">>, 3), RB>>

\* The prose a model puts around the array: none, plain text, or text with
\* square brackets of its own ("[1]", a stray "]" or "[").
ProseChoices ==
    {<<>>, <<Prose>>, <<Prose, LB, Prose, RB, Prose>>, <<Prose, RB, Prose>>, <<Prose, LB, Prose>>}

EmbeddedResponses == {pre \o FiveItems \o post : pre, post \in ProseChoices}

\* The AI responses the run is given: the 5-item array in its prose, one-item
\* arrays with every item of ItemChoices, items without options or without a
\* usable correctAnswer, and text without an array.
PersistResponses ==
    EmbeddedResponses
    \cup {<<LB, item, RB>> : item \in ItemChoices}
    \cup {<<Prose>>,
          <<Prose, LB, Q0, Comma, BareItem, RB>>,
          <<LB, NoOptionsItem(2), RB>>,
          <<LB, NullAnswerItem(<<"A", "B", "C", "D">>), RB>>}

PersistNext ==
    \/ \E response \in PersistResponses : QuizAIResponded("L1", response, PipelinePerms)
    \/ \E cause \in {"http_error"} : QuizAIFailed("L1", cause)
    \/ \E ok \in BOOLEAN, duration \in Durations : ExtractFramesDone("L1", ok, duration)
    \/ \E ok, unlinkOk \in BOOLEAN : CompleteUpdated("L1", ok, unlinkOk)
    \/ \E ok \in BOOLEAN : InnerFailedUpdated("L1", ok)

\* The run of QuizInit, taken from generateQuizzes to its end.
PersistSpec == QuizInit /\ [][PersistNext]_vars

\* ------------------------------------------------- extractFrames on its own

\* Longest video (seconds) that ffprobe reports.
MaxDuration == 400

\* The state in which the run of QuizInit, given a quiz at once, awaits
\* extractFrames (a state of Spec).
FrameInit ==
    /\ apiKey = TRUE
    /\ handler = [l \in Lectures |-> IF l = "L1" THEN "responded" ELSE "idle"]
    /\ req = [l \in Lectures |->
                IF l = "L1" THEN [source |-> "file", path |-> Path("upload", "a", "mp4")]
                ELSE [source |-> "youtube", path |-> Path("upload", "none", "mp4")]]
    /\ db = [l \in Lectures |->
                IF l = "L1"
                THEN ApplyUpdate(NewLecture("file", Some(Path("upload", "a", "mp4"))),
                                 UpdSummarizing("transcript", RenderHtml("transcript")))
                ELSE NoLecture]
    /\ pc = [l \in Lectures |-> IF l = "L1" THEN "extractFrames" ELSE "none"]
    /\ caught = [l \in Lectures |-> Unset]
    /\ quizI = [l \in Lectures |-> 0]
    /\ lastResponse = [l \in Lectures |-> IF l = "L1" THEN <<Prose, LB, Q0, RB>> ELSE <<>>]
    /\ quizLog = [l \in Lectures |->
                    IF l = "L1" THEN <<[threw |-> FALSE, response |-> <<Prose, LB, Q0, RB>>]>>
                    ELSE <<>>]
    /\ local = [l \in Lectures |->
                  IF l = "L1" THEN [NoLocals EXCEPT !.quizzes = <<Q0>>] ELSE NoLocals]
    /\ files = {Path("upload", "a", "mp4"), Path("upload", "a", "wav"), FramesDirOf("L1")}
    /\ stageWrites = [l \in Lectures |->
                        IF l = "L1" THEN <<"extracting_audio", "transcribing", "summarizing">>
                        ELSE <<>>]
    /\ failures = [l \in Lectures |-> <<>>]
    /\ invoked = [l \in Lectures |->
                    [op \in Operations |-> IF l = "L1" /\ op # "download" THEN 1 ELSE 0]]

FrameNext ==
    \/ \E ok \in BOOLEAN, duration \in 1..MaxDuration : ExtractFramesDone("L1", ok, duration)
    \/ \E ok, unlinkOk \in BOOLEAN : CompleteUpdated("L1", ok, unlinkOk)
    \/ \E ok \in BOOLEAN : InnerFailedUpdated("L1", ok)

FrameSpec == FrameInit /\ [][FrameNext]_vars

\* Express runs the rest of a route handler once its awaited save has resolved;
\* nothing is assumed of the operations a run awaits.
FairHandlerSpec == Spec /\ \A l \in Lectures : WF_vars(StartRunAndRespond(l))

\* ------------------------------------------------------------------- claims

Ended(l) == pc[l] \in {"returned", "rejected"}

\* The stages of a run, by the operation that throws.
StageOps ==
    {"download", "extractAudio", "whisper", "formatTranscript", "renderTranscript",
     "generateSummary", "renderSummary", "generateQuizzes", "extractFrames"}

FailedWrites(l) ==
    Cardinality({i \in 1..Len(stageWrites[l]) : stageWrites[l][i] = "failed"})

ExpectedStages(source) ==
    IF source = "file"
    THEN <<"extracting_audio", "transcribing", "summarizing", "complete">>
    ELSE <<"downloading", "extracting_audio", "transcribing", "summarizing", "complete">>

IsPrefix(s, t) == Len(s) <= Len(t) /\ SubSeq(t, 1, Len(s)) = s

\* C1: in every reachable state of every lecture record, processingError is
\* non-null if and only if processingStage is 'failed'.
C1_ErrorIffFailed ==
    \A l \in Lectures :
        db[l].exists =>
            (db[l].processingError # Unset <=> db[l].processingStage = "failed")

\* C1 witness: a run has recorded a failure, and another record is complete.
C1_Witness ==
    \E l, m \in Lectures :
        /\ db[l].processingStage = "failed" /\ db[l].processingError # Unset
        /\ db[m].processingStage = "complete" /\ db[m].processingError = Unset

ContainsCause(message, failure) ==
    IF failure.cause = "malformed_response"
    THEN message.resp = failure.resp
    ELSE message.cause = failure.cause

NonEmptyMessage(message) ==
    message.text # "" \/ message.cause # "" \/ message.resp # <<>>

\* The artifact fields produced by the stage of `op` or by a later one.
ArtifactsFrom(op) ==
    IF op = "download"
    THEN {"videoPath", "transcriptMd", "transcriptHtml", "summaryMd", "summaryHtml",
          "quizzes", "slides"}
    ELSE IF op \in {"extractAudio", "whisper", "formatTranscript", "renderTranscript"}
    THEN {"transcriptMd", "transcriptHtml", "summaryMd", "summaryHtml", "quizzes", "slides"}
    ELSE IF op \in {"generateSummary", "renderSummary"}
    THEN {"summaryMd", "summaryHtml", "quizzes", "slides"}
    ELSE IF op = "generateQuizzes" THEN {"quizzes", "slides"}
    ELSE {"slides"}

\* The run's only failure is the failure of one stage.
OnlyFailureIsStage(l) == Len(failures[l]) = 1 /\ failures[l][1].op \in StageOps

\* What C3 says of a failed stage, without the message's content.
StageFailureRecorded(l) ==
    /\ db[l].processingStage = "failed"
    /\ db[l].processingError # Unset
    /\ NonEmptyMessage(db[l].processingError[1])
    /\ \A f \in ArtifactsFrom(failures[l][1].op) : db[l][f] = <<>>

\* C3: if exactly one stage of a run fails, the record ends with stage 'failed',
\* a non-empty processingError that contains the failing stage's failure cause,
\* and every artifact of that stage or a later one unset or empty.
C3_SingleStageFailure ==
    \A l \in Lectures :
        (Ended(l) /\ OnlyFailureIsStage(l)) =>
            /\ StageFailureRecorded(l)
            /\ ContainsCause(db[l].processingError[1], failures[l][1])

\* C3, the part the code keeps: all but the cause in the message.
C3_RecordedWithoutCause ==
    \A l \in Lectures : (Ended(l) /\ OnlyFailureIsStage(l)) => StageFailureRecorded(l)

\* C4: any error raised by a stage is caught exactly once: no later stage is
\* started, the failure update is written exactly once for the run, and the run
\* function completes normally.
C4_StageErrorCaughtOnce ==
    \A l \in Lectures :
        (\E i \in 1..Len(failures[l]) : failures[l][i].op \in StageOps) =>
            /\ pc[l] \in {"upd_failed", "yt_upd_failed", "returned", "rejected"}
            /\ FailedWrites(l) <= 1
            /\ Ended(l) => (FailedWrites(l) = 1 /\ pc[l] = "returned")

\* C5: once processingStage is 'failed', no later step changes processingStage
\* or processingError of that lecture.
C5_FailedIsAbsorbing ==
    [][\A l \in Lectures :
          db[l].processingStage = "failed" =>
              /\ db'[l].processingStage = "failed"
              /\ db'[l].processingError = db[l].processingError]_vars

\* C5 witness: a YouTube run failed inside the nested processLecture and has
\* come back through processYouTubeLecture.
C5_Witness ==
    \E l \in Lectures :
        /\ req[l].source = "youtube"
        /\ db[l].processingStage = "failed"
        /\ pc[l] = "returned"
        /\ \E i \in 1..Len(stageWrites[l]) : stageWrites[l][i] = "extracting_audio"

ArtifactFields ==
    {"videoPath", "transcriptMd", "transcriptHtml", "summaryMd", "summaryHtml",
     "quizzes", "slides"}

\* C6: once an artifact field is persisted no later update clears or changes
\* it; the failure update changes only processingError and processingStage; a
\* record that got the 'summarizing' transition keeps its transcript fields.
C6_ArtifactsMonotonic ==
    [][\A l \in Lectures :
          /\ \A f \in ArtifactFields : db[l][f] # <<>> => db'[l][f] = db[l][f]
          /\ (db'[l].processingStage = "failed" /\ db[l].processingStage # "failed")
                => \A f \in DOMAIN db[l] \ {"processingError", "processingStage"} :
                       db'[l][f] = db[l][f]
          /\ (\E i \in 1..Len(stageWrites'[l]) : stageWrites'[l][i] = "summarizing")
                => /\ db'[l].transcriptMd = Some("transcript")
                   /\ db'[l].transcriptHtml = Some(RenderHtml("transcript"))]_vars

\* C6 witness: a run failed after the 'summarizing' transition and its
\* transcript is on the record.
C6_Witness ==
    \E l \in Lectures :
        /\ db[l].processingStage = "failed"
        /\ db[l].transcriptMd # Unset
        /\ db[l].transcriptHtml # Unset
        /\ Ended(l)

\* C7: every started run eventually reaches 'complete' or 'failed'; so a run
\* that has ended has one of the two on its record.
C7_EndedRunIsTerminal ==
    \A l \in Lectures :
        Ended(l) => db[l].processingStage \in {"complete", "failed"}

\* C8: the record exists with stage 'uploaded' before any update of its run,
\* and once the save has resolved the acknowledgment is sent whatever the run does.
C8_AckWithoutWaiting ==
    /\ [][\A l \in Lectures :
             /\ (~db[l].exists /\ db'[l].exists)
                   => /\ db'[l].processingStage = "uploaded"
                      /\ stageWrites'[l] = <<>>
                      /\ pc'[l] = "none"
             /\ (pc'[l] # "none" \/ stageWrites'[l] # <<>>) => db'[l].exists]_vars
    /\ \A l \in Lectures : (handler[l] = "saved") ~> (handler[l] = "responded")

\* C8 witness: the acknowledgment is out while the run awaits its download.
C8_Witness ==
    \E l \in Lectures :
        /\ handler[l] = "responded"
        /\ pc[l] = "download"
        /\ db[l].processingStage = "downloading"

CountOf(opts, text) == Cardinality({i \in 1..Len(opts) : opts[i] = text})

SameMultiset(a, b) ==
    /\ Len(a) = Len(b)
    /\ \A i \in 1..Len(a) : CountOf(a, a[i]) = CountOf(b, a[i])

\* `returned` holds the items of `response`, one for one, each with the option
\* texts it came with.
HoldsItemsOf(returned, response) ==
    /\ Len(returned) = Len(ParsedQuizzes(response))
    /\ \A k \in 1..Len(returned) :
          /\ returned[k].kind = ParsedQuizzes(response)[k].kind
          /\ returned[k].optKind = ParsedQuizzes(response)[k].optKind
          /\ SameMultiset(returned[k].options, ParsedQuizzes(response)[k].options)

\* generateQuizzes has returned or thrown.
QuizDone(l) == pc[l] \in {"extractFrames", "upd_failed"}

\* A response that is unparseable or has no bracket pair.
Malformed(entry) == ~entry.threw /\ ~AttemptParses(entry.response)

ParsesToShufflableArray(response) ==
    /\ AttemptParses(response)
    /\ JSONParse(ExtractJson(response).jsonString).isArray
    /\ \A k \in 1..Len(ParsedQuizzes(response)) :
          LET quiz == ParsedQuizzes(response)[k]
          IN  /\ quiz.kind # "null"
              /\ ~(quiz.optKind = "string" /\ quiz.caKind # "none")

WellFormedItem(quiz) ==
    /\ quiz.kind = "item"
    /\ quiz.optKind = "array"
    /\ Len(quiz.options) = NumOptions
    /\ quiz.caKind = "num"
    /\ quiz.correctAnswer \in 0..(NumOptions - 1)

\* C10: for every parsed item with 4 options and a correctAnswer index, after
\* the randomization step options[correctAnswer] is the text of the originally
\* correct option and options is a permutation of the original 4 strings,
\* whatever the comparator did.
C10_ShuffleKeepsAnswer ==
    pc["L1"] = "extractFrames" =>
        LET original == ParsedQuizzes(lastResponse["L1"])
            returned == local["L1"].quizzes
        IN  /\ Len(returned) = Len(original)
            /\ \A k \in 1..Len(original) :
                  WellFormedItem(original[k]) =>
                      /\ returned[k].correctAnswer \in 0..(NumOptions - 1)
                      /\ returned[k].options[returned[k].correctAnswer + 1]
                            = original[k].options[original[k].correctAnswer + 1]
                      /\ SameMultiset(returned[k].options, original[k].options)

\* C10 witness: an item with a repeated option text came back reordered, its
\* correctAnswer moved.
C10_Witness ==
    /\ pc["L1"] = "extractFrames"
    /\ \E k \in 1..Len(local["L1"].quizzes) :
          LET original == ParsedQuizzes(lastResponse["L1"])[k]
              returned == local["L1"].quizzes[k]
          IN  /\ WellFormedItem(original)
              /\ original.options = <<"A", "B", "B", "A">>
              /\ returned.options # original.options
              /\ returned.correctAnswer # original.correctAnswer

\* C11: every quiz item persisted on a lecture record has a correctAnswer that
\* is a valid index into the item's options: a number with
\* 0 <= correctAnswer < length of options.
C11_CorrectAnswerIsIndex ==
    \A l \in Lectures :
        \A k \in 1..Len(db[l].quizzes) :
            LET quiz == db[l].quizzes[k]
            IN  /\ quiz.caKind = "num"
                /\ quiz.optKind = "array"
                /\ quiz.correctAnswer >= 0
                /\ quiz.correctAnswer < Len(quiz.options)

\* C12: for every positive duration the frame count extractFrames requests is
\* clamp(floor(duration / 30), 4, 12), and so lies in 4..12.
C12_FrameCountClamped ==
    \A l \in Lectures :
        local[l].duration > 0 =>
            /\ local[l].frameCount = Clamp(local[l].duration \div 30, 4, 12)
            /\ local[l].frameCount \in 4..12

\* C12 witness: a long video got 12 frames, and the record holds them.
C12_Witness ==
    \E l \in Lectures :
        /\ local[l].duration > 12 * 30
        /\ local[l].frameCount = 12
        /\ Len(db[l].slides) = 12

\* The files a run has written, read or deleted so far, by the operations it
\* has started: the video, the .wav audio, Whisper's .txt and the frames directory.
WorkingFiles(l) ==
    LET video == VideoPathOf(l)
        audio == AudioPathOf(video)
    IN  (IF invoked[l]["download"] > 0 THEN {video} ELSE {})
        \cup (IF invoked[l]["extractAudio"] > 0 THEN {video, audio} ELSE {})
        \cup (IF invoked[l]["whisper"] > 0 THEN {audio, TxtPathOf(audio)} ELSE {})
        \cup (IF invoked[l]["extractFrames"] > 0 THEN {video, FramesDirOf(l)} ELSE {})

\* C13: two runs with distinct lecture ids never touch the same working file:
\* no file written, read or deleted by one run is written, read or deleted by
\* the other, in any interleaving.
C13_NoSharedWorkingFile ==
    \A l, m \in Lectures :
        l # m => WorkingFiles(l) \cap WorkingFiles(m) = {}

\* C13, the part the code keeps: the files of a YouTube run carry its lecture
\* id and are no other run's.
C13_YouTubeFilesApart ==
    \A l, m \in Lectures :
        (l # m /\ req[l].source = "youtube") =>
            /\ WorkingFiles(l) \cap WorkingFiles(m) = {}
            /\ \A f \in WorkingFiles(l) : f.name = l

\* The quiz items of a response, in order.
ItemsIn(response) == SelectSeq(response, LAMBDA t : t.kind = "item")

\* The first attempt returned the 5 items of its response, each with its option
\* texts, and no corrective call was made.
FirstAttemptReturnedItems(l) ==
    /\ invoked[l]["quizAI"] = 1
    /\ Len(quizLog[l]) = 1
    /\ pc[l] # "quizAI"
    /\ Len(local[l].quizzes) = NumQuestions
    /\ \A k \in 1..NumQuestions :
          /\ local[l].quizzes[k].kind = "item"
          /\ SameMultiset(local[l].quizzes[k].options,
                          ItemsIn(quizLog[l][1].response)[k].options)

\* C14 as claimed: a first response that is one well-formed array of 5 items
\* with arbitrary prose before and after it is extracted and parsed at the
\* first attempt: the 5 items are returned without a corrective call.
C14_ArbitraryProse ==
    (quizLog["L1"] # <<>> /\ ~quizLog["L1"][1].threw
       /\ quizLog["L1"][1].response \in EmbeddedResponses)
        => FirstAttemptReturnedItems("L1")

\* Prose without "[" before the array and without "]" after it.
NoOpening(prose) == \A i \in 1..Len(prose) : prose[i].kind # "lb"
NoClosing(prose) == \A i \in 1..Len(prose) : prose[i].kind # "rb"
CleanlyEmbedded ==
    {pre \o FiveItems \o post :
        pre \in {p \in ProseChoices : NoOpening(p)},
        post \in {p \in ProseChoices : NoClosing(p)}}

\* C14 (amended): a first response that is one well-formed array of 5 quiz
\* items, preceded by prose without "[" and followed by prose without "]", is
\* extracted and parsed at the first attempt: the 5 items are returned without
\* a corrective call.
C14_BracketFreeProse ==
    (quizLog["L1"] # <<>> /\ ~quizLog["L1"][1].threw
       /\ quizLog["L1"][1].response \in CleanlyEmbedded)
        => FirstAttemptReturnedItems("L1")

\* C14 witness: the array came between prose with a stray "]" before it and a
\* stray "[" after it, and its 5 items were returned, some reordered.
C14_Witness ==
    /\ pc["L1"] = "extractFrames"
    /\ quizLog["L1"] =
          <<[threw |-> FALSE,
             response |-> <<Prose, RB, Prose>> \o FiveItems \o <<Prose, LB, Prose>>]>>
    /\ Len(local["L1"].quizzes) = NumQuestions
    /\ local["L1"].quizzes # ItemsIn(FiveItems)

\* `stage` has been written for the run of l.
StageWritten(l, stage) == \E i \in 1..Len(stageWrites[l]) : stageWrites[l][i] = stage

\* The stage whose work an operation is part of.
StageOfOperation(op) ==
    IF op = "download" THEN "downloading"
    ELSE IF op = "extractAudio" THEN "extracting_audio"
    ELSE IF op \in {"whisper", "formatAI", "renderTranscript"} THEN "transcribing"
    ELSE "summarizing"

\* C15: no operation of a stage is started before the update that sets
\* processingStage to that stage's name has completed, and while a run awaits
\* an operation the persisted stage names that operation's stage.
C15_StagePersistedBeforeWork ==
    \A l \in Lectures :
        /\ \A op \in Operations :
              invoked[l][op] > 0 => StageWritten(l, StageOfOperation(op))
        /\ pc[l] \in Operations => db[l].processingStage = StageOfOperation(pc[l])

\* C15 witness: a YouTube run awaits its frames, every stage before it written.
C15_Witness ==
    \E l \in Lectures :
        /\ req[l].source = "youtube"
        /\ pc[l] = "extractFrames"
        /\ invoked[l]["extractFrames"] = 1
        /\ stageWrites[l] = <<"downloading", "extracting_audio", "transcribing", "summarizing">>

\* The artifacts of the final update.
FinalArtifacts == {"summaryMd", "summaryHtml", "quizzes", "slides"}

\* C16: transcriptMd and transcriptHtml are set together, and only with the
\* 'summarizing' transition; summaryMd, summaryHtml, quizzes and slides are set
\* only by the update that writes processingStage 'complete', so none of them
\* is populated on a record whose run has not reached 'complete'.
C16_GroupedPersistence ==
    /\ [](\A l \in Lectures :
            /\ db[l].transcriptMd = Unset <=> db[l].transcriptHtml = Unset
            /\ db[l].transcriptMd # Unset => StageWritten(l, "summarizing")
            /\ \A f \in FinalArtifacts : db[l][f] # <<>> => StageWritten(l, "complete"))
    /\ [][\A l \in Lectures :
             /\ (db'[l].transcriptMd # db[l].transcriptMd
                    \/ db'[l].transcriptHtml # db[l].transcriptHtml)
                  => /\ db'[l].processingStage = "summarizing"
                     /\ stageWrites'[l] = Append(stageWrites[l], "summarizing")
             /\ (\E f \in FinalArtifacts : db'[l][f] # db[l][f])
                  => /\ db'[l].processingStage = "complete"
                     /\ stageWrites'[l] = Append(stageWrites[l], "complete")]_vars

\* C16 witness: one record is complete with every artifact of the final update,
\* another has its transcript and none of them.
C16_Witness ==
    \E l, m \in Lectures :
        /\ db[l].processingStage = "complete"
        /\ \A f \in FinalArtifacts : db[l][f] # <<>>
        /\ db[m].processingStage = "summarizing"
        /\ db[m].transcriptMd # Unset /\ db[m].transcriptHtml # Unset
        /\ \A f \in FinalArtifacts : db[m][f] = <<>>

\* The audio file of the run of l, and whether its extraction has succeeded.
AudioOf(l) == AudioPathOf(VideoPathOf(l))
AudioExtracted(l) ==
    /\ invoked[l]["extractAudio"] = 1
    /\ pc[l] # "extractAudio"
    /\ \A i \in 1..Len(failures[l]) : failures[l][i].op # "extractAudio"

\* What C17 says of the run of l.
AudioKeptUnlessSuccessful(l) ==
    /\ (Ended(l) /\ db[l].processingStage = "failed" /\ AudioExtracted(l))
          => AudioOf(l) \in files
    /\ (pc[l] = "returned" /\ db[l].processingStage = "complete")
          => AudioOf(l) \notin files
    /\ (AudioExtracted(l) /\ ~StageWritten(l, "complete")) => AudioOf(l) \in files

\* C17: the extracted audio file is removed only after 'complete' has been
\* written: it exists while the run has not written 'complete', it still
\* exists when the run has ended 'failed' after the extraction succeeded, and
\* it no longer exists after a successful run.
C17_AudioRemovedOnlyOnSuccess ==
    \A l \in Lectures : AudioKeptUnlessSuccessful(l)

\* C17, the part the code keeps: the same of every run whose audio file is no
\* other run's.
C17_OwnAudioFile ==
    \A l \in Lectures :
        (\A m \in Lectures \ {l} : AudioOf(m) # AudioOf(l)) => AudioKeptUnlessSuccessful(l)

\* The run of l is in a catch block or over.
Aborted(l) == pc[l] \in {"upd_failed", "yt_upd_failed", "returned", "rejected"}

\* A failure of `stage` is among the run's failures.
StageFailed(l, stage) == \E i \in 1..Len(failures[l]) : failures[l][i].op = stage

\* C18: in a run every operation is started at most once, the quiz AI call at
\* most twice; a failed AI call of transcript formatting or of summary
\* generation ends the run after that one call, nothing later started.
C18_OnlyQuizRetries ==
    \A l \in Lectures :
        /\ \A op \in Operations \ {"quizAI"} : invoked[l][op] <= 1
        /\ invoked[l]["quizAI"] <= 2
        /\ StageFailed(l, "formatTranscript")
              => /\ Aborted(l)
                 /\ invoked[l]["formatAI"] = 1
                 /\ \A op \in {"renderTranscript", "summaryAI", "renderSummary", "quizAI",
                                "extractFrames"} : invoked[l][op] = 0
        /\ StageFailed(l, "generateSummary")
              => /\ Aborted(l)
                 /\ invoked[l]["summaryAI"] = 1
                 /\ \A op \in {"renderSummary", "quizAI", "extractFrames"} : invoked[l][op] = 0

\* C18 witness: one run made its second quiz call and went on to complete,
\* another was ended by its one summary call.
C18_Witness ==
    \E l, m \in Lectures :
        /\ invoked[l]["quizAI"] = 2
        /\ db[l].processingStage = "complete"
        /\ \A op \in Operations \ {"quizAI", "download"} : invoked[l][op] = 1
        /\ StageFailed(m, "generateSummary")
        /\ db[m].processingStage = "failed"

\* The timestamps of the slides extractFrames returned, in slide order.
TimestampsOf(l) == [i \in 1..Len(local[l].slides) |-> local[l].slides[i].timestamp]

\* C19: for every positive whole-second duration, slide i (0-based) gets
\* floor((i + 1) * duration / frameCount), and the last slide's timestamp is
\* the duration.  (That the timestamps increase is C19_Increasing.)
C19_SlideTimestamps ==
    \A l \in Lectures :
        local[l].duration > 0 =>
            LET stamps == TimestampsOf(l)
            IN  /\ Len(stamps) = local[l].frameCount
                /\ \A k \in 1..Len(stamps) :
                      stamps[k] = (k * local[l].duration) \div local[l].frameCount
                /\ stamps[Len(stamps)] = local[l].duration

\* C19, the part the code keeps: the timestamps never decrease, increase
\* strictly for a duration of 3 seconds or more, each is the claimed value or
\* one less, and the last is the duration or one less.
C19_Increasing ==
    \A l \in Lectures :
        local[l].duration > 0 =>
            LET stamps == TimestampsOf(l)
            IN  /\ \A k \in 1..(Len(stamps) - 1) :
                      /\ stamps[k] <= stamps[k + 1]
                      /\ local[l].duration >= 3 => stamps[k] < stamps[k + 1]
                /\ \A k \in 1..Len(stamps) :
                      (k * local[l].duration) \div local[l].frameCount - stamps[k] \in {0, 1}

\* The record of l is as the final update left it.
StillComplete(l) ==
    /\ db[l].processingStage = "complete"
    /\ db[l].processingError = Unset

\* C20: once 'complete' has been written for a lecture, no later step of the
\* run changes processingStage or processingError, even if the removal of the
\* audio file fails: the record stays 'complete' without an error.
C20_CompleteIsAbsorbing ==
    \A l \in Lectures : StageWritten(l, "complete") => StillComplete(l)

\* C20, the part the code keeps: the same of every run whose cleanup did not throw.
C20_CompleteUnlessCleanupThrows ==
    \A l \in Lectures :
        (StageWritten(l, "complete") /\ ~StageFailed(l, "cleanup")) => StillComplete(l)

====
